---- MODULE Spec2Model ----
(***************************************************************************)
(* The ELF -> SGXS layout engine of libenclave-tools (elf2sgxs.rs):        *)
(* LayoutInfo::new (check_symbols, check_dynamic, check_relocs) followed   *)
(* by LayoutInfo::write (layout plan, ECREATE, loadable segments with the  *)
(* spliced symbol values, heap, stack, TLS, TCS, SSA).                     *)
(*                                                                         *)
(* Numbers.  TLC's integers are 32 bits wide, so the two magnitudes of the *)
(* source that do not fit are modelled at a reduced width: the u64 word is *)
(* WORD_BITS wide (arithmetic wraps at U64_MOD = 2^WORD_BITS) and the f64  *)
(* significand is MANT_BITS wide (the source's 53, so that the limit       *)
(* 0x20000000000000 is 2^MANT_BITS and the hidden bit 0x10000000000000 is  *)
(* 2^(MANT_BITS-1)).  Every other number (page size, guard size, splice    *)
(* width, relocation type) is the source's own.                            *)
(***************************************************************************)
EXTENDS Integers, Sequences, FiniteSets, TLC

VARIABLES
  elf,              \* the input: ElfFile as the code reads it
  cfg,              \* ssaframesize, heap_size, stack_size, debug
  overflow_checks,  \* the build: TRUE = u64 overflow panics, FALSE = it wraps
  pc,               \* position in new / write
  layout,           \* LayoutInfo (sym, dyn) once new has succeeded
  plan,             \* locals of write: heap_addr .. enclave_size
  splices,          \* write_elf_segments: the sorted splice array
  cur_splice,       \* write_elf_segments: index of the peekable cursor's head
  seg_idx,          \* write_elf_segments: number of program headers visited
  out,              \* what the SGXS writer has received, in order
  next_offset,      \* the canonical writer's running cursor
  result,           \* "running", Ok, Err(kind), or a panic
  last,             \* argument of a direct enclave_size call
  size_res,         \* its result
  reader,           \* io::copy: what the reader does at each call of read
  reads,            \* io::copy: calls of reader.read made so far
  buf,              \* io::copy: the buffer
  len,              \* io::copy: bytes of buf the last read filled
  written,          \* io::copy: the running count
  passed,           \* io::copy: the bytes handed to writer.write_all, in order
  io_err,           \* io::copy: the error a read (other than Interrupted) or
                    \* a write_all has returned, if any
  ret               \* io::copy: "running", Ok(n) or Err(e)

vars == <<elf, cfg, overflow_checks, pc, layout, plan, splices, cur_splice,
          seg_idx, out, next_offset, result, last, size_res,
          reader, reads, buf, len, written, passed, io_err, ret>>

----------------------------------------------------------------------------
(* Widths and program constants *)

WORD_BITS == 28
MANT_BITS == 24

U64_MOD == 2^WORD_BITS
ENCLAVE_SIZE_LIMIT == 2^MANT_BITS
HIDDEN_BIT == 2^(MANT_BITS - 1)

PAGE_SIZE == 4096
GUARD_SIZE == 65536
SPLICE_LEN == 8
SYM_SIZE == 8
R_X86_64_RELATIVE == 8

----------------------------------------------------------------------------
(* Results *)

Ok(v) == [ok |-> TRUE, val |-> v]
Err(e) == [ok |-> FALSE, err |-> e]
E(kind) == [kind |-> kind]
PANIC == [ok |-> FALSE, err |-> [kind |-> "panic"]]
RUNNING == [ok |-> FALSE, err |-> [kind |-> "running"]]

IsErr(r) == ~r.ok /\ r.err.kind \notin {"panic", "running"}

----------------------------------------------------------------------------
(* u64 arithmetic *)

Overflows(a, b) == a + b >= U64_MOD
WrapAdd(a, b) == (a + b) % U64_MOD

Min(a, b) == IF a <= b THEN a ELSE b
Max(a, b) == IF a >= b THEN a ELSE b

RECURSIVE Log2Floor(_)
Log2Floor(x) == IF x <= 1 THEN 0 ELSE 1 + Log2Floor(x \div 2)

\* x ^ y on naturals, bit by bit
RECURSIVE BitXor(_, _)
BitXor(x, y) ==
  IF x = 0 THEN y
  ELSE IF y = 0 THEN x
  ELSE (((x % 2) + (y % 2)) % 2) + 2 * BitXor(x \div 2, y \div 2)

\* size & 0xfff
page_residue(size) == size % PAGE_SIZE

size_align_page_size(size) ==
  LET residue == page_residue(size)
  IN IF residue = 0 THEN size ELSE WrapAdd(size, PAGE_SIZE - residue)

\* (x as f64).integer_decode() for x > 0: x rounded to MANT_BITS significant
\* bits (to nearest, ties to even; exact below 2^MANT_BITS), as
\* mantissa * 2^exponent with the hidden bit set in mantissa.
integer_decode(x) ==
  LET e == Log2Floor(x)
  IN IF e < MANT_BITS
     THEN [mantissa |-> x * 2^(MANT_BITS - 1 - e), exponent |-> e - (MANT_BITS - 1)]
     ELSE LET sh == e - (MANT_BITS - 1)
              q == x \div 2^sh
              r == x % 2^sh
              half == 2^(sh - 1)
              up == r > half \/ (r = half /\ q % 2 = 1)
              m == IF up THEN q + 1 ELSE q
          IN IF m = 2 * HIDDEN_BIT
             THEN [mantissa |-> HIDDEN_BIT, exponent |-> sh + 1]
             ELSE [mantissa |-> m, exponent |-> sh]

\* enclave_size with the limit compared by > in place of >=
enclave_size_gt(last_page_address) ==
  IF last_page_address = 0 THEN Ok(0)
  ELSE IF last_page_address > ENCLAVE_SIZE_LIMIT THEN Err(E("EnclaveSizeTooBig"))
  ELSE LET d == integer_decode(last_page_address)
           adjust == IF BitXor(d.mantissa, HIDDEN_BIT) = 0
                     THEN MANT_BITS - 1 ELSE MANT_BITS
       IN Ok(2^(d.exponent + adjust))

\* enclave_size without the case of an exact power of two
enclave_size_noadjust(last_page_address) ==
  IF last_page_address = 0 THEN Ok(0)
  ELSE IF last_page_address >= ENCLAVE_SIZE_LIMIT THEN Err(E("EnclaveSizeTooBig"))
  ELSE LET d == integer_decode(last_page_address)
       IN Ok(2^(d.exponent + MANT_BITS))

enclave_size(last_page_address) ==
  IF last_page_address = 0 THEN Ok(0)
  ELSE IF last_page_address >= ENCLAVE_SIZE_LIMIT THEN Err(E("EnclaveSizeTooBig"))
  ELSE LET d == integer_decode(last_page_address)
           adjust == IF BitXor(d.mantissa, HIDDEN_BIT) = 0
                     THEN MANT_BITS - 1 ELSE MANT_BITS
       IN Ok(2^(d.exponent + adjust))

----------------------------------------------------------------------------
(* The ELF file as xmas_elf presents it to the code.

   elf.class64   header.pt1.class is SixtyFour
   elf.dynsym    "none": no section named .dynsym; "other": its data is
                 not a DynSymbolTable64; "symtab": it is
   elf.syms      the table's entries, the reserved first entry included:
                 [name, undef (shndx = SHN_UNDEF), size, value]
   elf.phdrs     program headers in file order:
                 [type, flags (subset of {"R","W","X"}), vaddr, mem_size,
                  file_size]
   elf.dyns      the entries of the first PT_DYNAMIC segment: [tag, val]
   elf.sections  the sections in file order: [kind, relas], kind "Rela64"
                 for a 64-bit RELA table of [sym, rtype, offset]          *)

REQUIRED_SYMS == <<"sgx_entry", "HEAP_BASE", "HEAP_SIZE", "RELA", "RELACOUNT", "ENCLAVE_SIZE">>
SIZED_SYMS == <<"HEAP_BASE", "HEAP_SIZE", "RELA", "RELACOUNT", "ENCLAVE_SIZE">>

Range(s) == {s[i] : i \in 1..Len(s)}

NONE == 0

\* read_syms!: the loop over syms.iter().skip(1), then the missing list.
\* found[name] is the index of the recorded entry, NONE before.
RECURSIVE read_syms_loop(_, _, _)
read_syms_loop(syms, i, found) ==
  IF i > Len(syms)
  THEN IF \A n \in Range(REQUIRED_SYMS) : found[n] # NONE
       THEN Ok([n \in Range(REQUIRED_SYMS) |-> syms[found[n]]])
       ELSE Err([kind |-> "DynamicSymbolMissing",
                 missing |-> SelectSeq(REQUIRED_SYMS, LAMBDA n : found[n] = NONE)])
  ELSE LET sym == syms[i]
       IN IF sym.undef
          THEN Err([kind |-> "DynamicSymbolUndefined", name |-> sym.name])
          ELSE IF sym.name \in Range(REQUIRED_SYMS)
          THEN IF found[sym.name] # NONE
               THEN Err([kind |-> "DynamicSymbolDuplicate", name |-> sym.name])
               ELSE read_syms_loop(syms, i + 1, [found EXCEPT ![sym.name] = i])
          ELSE read_syms_loop(syms, i + 1, found)

\* read_syms! without skip(1)
read_syms_noskip(syms) ==
  read_syms_loop(syms, 1, [n \in Range(REQUIRED_SYMS) |-> NONE])

read_syms(syms) ==
  read_syms_loop(syms, 2, [n \in Range(REQUIRED_SYMS) |-> NONE])

\* check_size! for the five spliced symbols, in the order of the calls
RECURSIVE check_sizes(_, _)
check_sizes(sym, k) ==
  IF k > Len(SIZED_SYMS) THEN Ok(sym)
  ELSE LET name == SIZED_SYMS[k]
           size == sym[name].size
       IN IF size # SYM_SIZE
          THEN Err([kind |-> "DynamicSymbolIncorrectSize", name |-> name,
                    expected |-> SYM_SIZE, actual |-> size])
          ELSE check_sizes(sym, k + 1)

check_symbols(e) ==
  IF e.dynsym = "none" THEN Err(E("DynamicSymbolTableNotFound"))
  ELSE IF e.dynsym # "symtab" THEN Err(E("DynamicSymbolTableNotInDynsymSection"))
  ELSE LET syms == read_syms(e.syms)
       IN IF syms.ok THEN check_sizes(syms.val, 1) ELSE syms

\* the first match arm with the commented-out Pltgot in it
PLTGOT_TAGS_strict == {"PltRelSize", "PltRel", "JmpRel", "Pltgot"}

\* The tags check_dynamic rejects, by the error of their match arm
PLTGOT_TAGS == {"PltRelSize", "PltRel", "JmpRel"}
INIT_TAGS == {"Init", "InitArray", "InitArraySize"}
FINI_TAGS == {"Fini", "FiniArray", "FiniArraySize"}
IMPLICIT_RELOC_TAGS == {"Rel", "RelSize", "RelEnt", "DT_RELCOUNT"}

DynNone == [some |-> FALSE]
DynSome(rela, relacount) == [some |-> TRUE, rela |-> rela, relacount |-> relacount]

\* the final match (rela, relacount) of check_dynamic; 0 is None, otherwise
\* the index of the entry
dyn_pair(dyns, rela, relacount) ==
  IF rela # NONE /\ relacount # NONE THEN Ok(DynSome(dyns[rela], dyns[relacount]))
  ELSE IF rela = NONE /\ relacount = NONE THEN Ok(DynNone)
  ELSE IF relacount = NONE THEN Err(E("DynEntryFoundDtRelaButNotDtRelacount"))
  ELSE Err(E("DynEntryFoundDtRelacountButNotDtRela"))

\* the loop `for dyn in dyns` of check_dynamic
RECURSIVE dyn_loop(_, _, _, _)
dyn_loop(dyns, i, rela, relacount) ==
  IF i > Len(dyns) THEN dyn_pair(dyns, rela, relacount)
  ELSE LET tag == dyns[i].tag
       IN IF tag \in PLTGOT_TAGS THEN Err(E("DynEntryUnsupportedPLTGOT"))
          ELSE IF tag \in INIT_TAGS THEN Err(E("DynEntryUnsupportedInitFunction"))
          ELSE IF tag \in FINI_TAGS THEN Err(E("DynEntryUnsupportedFiniFunction"))
          ELSE IF tag \in IMPLICIT_RELOC_TAGS THEN Err(E("DynEntryUnsupportedImplicitReloc"))
          ELSE IF tag = "Rela"
          THEN IF rela # NONE THEN Err(E("DynEntryDuplicateDtRela"))
               ELSE dyn_loop(dyns, i + 1, i, relacount)
          ELSE IF tag = "DT_RELACOUNT"
          THEN IF relacount # NONE THEN Err(E("DynEntryDuplicateDtRelacount"))
               ELSE dyn_loop(dyns, i + 1, rela, i)
          ELSE dyn_loop(dyns, i + 1, rela, relacount)

\* ph.get_data for a PT_DYNAMIC header: xmas_elf picks the variant by class
dynamic_data_is_64(e) == e.class64

has_pt_dynamic(e) == \E i \in 1..Len(e.phdrs) : e.phdrs[i].type = "Dynamic"

check_dynamic(e) ==
  IF ~has_pt_dynamic(e) THEN Err(E("DynamicSectionNotFound"))
  ELSE IF ~dynamic_data_is_64(e) THEN Err(E("DynamicSectionNotInPtDynamicSegment"))
  ELSE dyn_loop(e.dyns, 1, NONE, NONE)

\* writable_ranges of check_relocs: [start, end) of every writable PT_LOAD
is_writable_load(ph) == ph.type = "Load" /\ "W" \in ph.flags

writable_ranges(e) ==
  LET phs == SelectSeq(e.phdrs, is_writable_load)
  IN [i \in 1..Len(phs) |->
        [start |-> phs[i].vaddr, end |-> WrapAdd(phs[i].vaddr, phs[i].mem_size)]]

ranges_overflow(e) ==
  \E i \in 1..Len(e.phdrs) :
     is_writable_load(e.phdrs[i]) /\ Overflows(e.phdrs[i].vaddr, e.phdrs[i].mem_size)

\* writable_ranges.iter().find(|r| offset>=r.start && (offset+8)<=r.end):
\* "found", "none", or "panic" when offset+8 is evaluated, overflows and the
\* build checks overflow
RECURSIVE find_range(_, _, _, _)
find_range(ranges, i, offset, checks) ==
  IF i > Len(ranges) THEN "none"
  ELSE IF offset >= ranges[i].start
  THEN IF checks /\ Overflows(offset, SPLICE_LEN) THEN "panic"
       ELSE IF WrapAdd(offset, SPLICE_LEN) <= ranges[i].end THEN "found"
       ELSE find_range(ranges, i + 1, offset, checks)
  ELSE find_range(ranges, i + 1, offset, checks)

reloc_ok(rela) == rela.sym = 0 /\ rela.rtype = R_X86_64_RELATIVE

\* the loops of check_relocs over the sections (si) and the entries of a
\* Rela64 section (ri); count already holds relas.len() of section si
RECURSIVE reloc_loop(_, _, _, _, _, _)
reloc_loop(e, ranges, si, ri, count, checks) ==
  IF si > Len(e.sections) THEN Ok(count)
  ELSE LET section == e.sections[si]
       IN IF section.kind # "Rela64"
          THEN reloc_loop(e, ranges, si + 1, 1, count, checks)
          ELSE LET relas == section.relas
                   cnt == IF ri = 1 THEN count + Len(relas) ELSE count
               IN IF ri > Len(relas)
                  THEN reloc_loop(e, ranges, si + 1, 1, cnt, checks)
                  ELSE LET rela == relas[ri]
                           hit == find_range(ranges, 1, rela.offset, checks)
                       IN IF ~reloc_ok(rela)
                          THEN Err([kind |-> "RelocationInvalid",
                                    section |-> rela.sym, rtype |-> rela.rtype])
                          ELSE IF hit = "panic" THEN PANIC
                          ELSE IF hit = "none"
                          THEN Err([kind |-> "RelocationOutsideWritableSegment",
                                    offset |-> rela.offset])
                          ELSE reloc_loop(e, ranges, si, ri + 1, cnt, checks)

relacount_target(dynamic) == IF dynamic.some THEN dynamic.relacount.val ELSE 0

check_relocs(e, dynamic, checks) ==
  IF checks /\ ranges_overflow(e) THEN PANIC
  ELSE LET walked == reloc_loop(e, writable_ranges(e), 1, 1, 0, checks)
           target == relacount_target(dynamic)
       IN IF ~walked.ok THEN walked
          ELSE IF walked.val # target
          THEN Err([kind |-> "RelocationInvalidCount",
                    expected |-> target, actual |-> walked.val])
          ELSE Ok(walked.val)

\* LayoutInfo::new: the class check, then the three checks; Ok carries the
\* fields of LayoutInfo that come from the ELF
new(e, checks) ==
  IF ~e.class64 THEN Err(E("ElfClassNot64"))
  ELSE LET sym == check_symbols(e)
       IN IF ~sym.ok THEN sym
          ELSE LET dyn == check_dynamic(e)
               IN IF ~dyn.ok THEN dyn
                  ELSE LET rel == check_relocs(e, dyn.val, checks)
                       IN IF ~rel.ok THEN rel
                          ELSE Ok([sym |-> sym.val, dyn |-> dyn.val])

----------------------------------------------------------------------------
(* Byte streams (the chained Read objects of write_elf_segments) *)

\* The content of the ELF image at a virtual address: never zero, so that
\* segment bytes differ from zero fill
ElfByte(addr) == (addr % 251) + 1

Repeat0(n) == [i \in 1..n |-> 0]

\* r.take(n): the first n bytes of r, or all of r when it is shorter
Take(r, n) == SubSeq(r, 1, Min(n, Len(r)))

\* transmute::<&u64,&[u8;8]>: the value's eight bytes, least significant first
RECURSIVE le_bytes_from(_, _)
le_bytes_from(v, n) == IF n = 0 THEN <<>> ELSE <<v % 256>> \o le_bytes_from(v \div 256, n - 1)

le_bytes(v) == le_bytes_from(v, SPLICE_LEN)

\* ph.get_data: the file_size bytes the segment has in the file
base_data(ph) == [i \in 1..ph.file_size |-> ElfByte(ph.vaddr + i - 1)]

----------------------------------------------------------------------------
(* Splices *)

Splice(addr, val) == [addr |-> addr, val |-> val]

\* splices.sort(): stable, by address only (Ord for Splice compares .0)
RECURSIVE insert_sorted(_, _)
insert_sorted(sorted, x) ==
  IF sorted = <<>> THEN <<x>>
  ELSE IF sorted[Len(sorted)].addr <= x.addr THEN Append(sorted, x)
  ELSE Append(insert_sorted(SubSeq(sorted, 1, Len(sorted) - 1), x), sorted[Len(sorted)])

RECURSIVE sort_from(_, _, _)
sort_from(s, i, acc) ==
  IF i > Len(s) THEN acc ELSE sort_from(s, i + 1, insert_sorted(acc, s[i]))

sort(s) == sort_from(s, 1, <<>>)

\* the array `splices` of write_elf_segments, before the sort
splice_array(lay, c, heap_addr, enc_size) ==
  << Splice(lay.sym["HEAP_BASE"].value, heap_addr),
     Splice(lay.sym["HEAP_SIZE"].value, c.heap_size),
     Splice(lay.sym["RELA"].value, IF lay.dyn.some THEN lay.dyn.rela.val ELSE 0),
     Splice(lay.sym["RELACOUNT"].value, IF lay.dyn.some THEN lay.dyn.relacount.val ELSE 0),
     Splice(lay.sym["ENCLAVE_SIZE"].value, enc_size) >>

----------------------------------------------------------------------------
(* One iteration of the loop of write_elf_segments over a PT_LOAD header *)

seg_start(ph) == ph.vaddr
page_base(start) == start - page_residue(start)
seg_base(ph) == page_base(seg_start(ph))
seg_end(ph) == WrapAdd(ph.vaddr, ph.mem_size)

seg_pages(ph) == size_align_page_size(seg_end(ph) - seg_base(ph)) \div PAGE_SIZE

seg_flags(ph) == ph.flags \cap {"R", "W", "X"}

\* the first if/else chain: the stream before the while loop, and the cursor
seg_first(ph, spl, cur) ==
  LET start == seg_start(ph)
      cur_ptr == seg_base(ph)
  IN IF cur <= Len(spl) /\ cur_ptr = spl[cur].addr
     THEN [data |-> le_bytes(spl[cur].val), cur |-> cur + 1]
     ELSE IF cur_ptr = start
     THEN [data |-> base_data(ph), cur |-> cur]
     ELSE [data |-> Repeat0(start - cur_ptr) \o base_data(ph), cur |-> cur]

\* the condition of the while loop on the peeked splice
splice_in_window(ph, s) == s.addr >= seg_base(ph) /\ s.addr + SPLICE_LEN < seg_end(ph)

\* the while loop: Ok([data, cur]) or a panic of the slice
\* &base_data[(cur_ptr-start) as usize..] when the index is past its length
RECURSIVE seg_loop(_, _, _, _)
seg_loop(ph, spl, cur, data) ==
  IF cur <= Len(spl) /\ splice_in_window(ph, spl[cur])
  THEN LET splice == spl[cur]
           start == seg_start(ph)
           nd == Take(data, splice.addr - seg_base(ph)) \o le_bytes(splice.val)
           cur_ptr == splice.addr + SPLICE_LEN
           bd == base_data(ph)
       IN IF cur_ptr < start
          THEN seg_loop(ph, spl, cur + 1, nd \o Repeat0(start - cur_ptr) \o bd)
          ELSE IF cur_ptr - start > Len(bd)
          THEN PANIC
          ELSE seg_loop(ph, spl, cur + 1, nd \o SubSeq(bd, cur_ptr - start + 1, Len(bd)))
  ELSE Ok([data |-> data, cur |-> cur])

seg_stream(ph, spl, cur) ==
  LET first == seg_first(ph, spl, cur)
  IN seg_loop(ph, spl, first.cur, first.data)

----------------------------------------------------------------------------
(* The layout plan: the locals of LayoutInfo::write *)

is_load(ph) == ph.type = "Load"

load_headers(e) == SelectSeq(e.phdrs, is_load)

RECURSIVE seq_max(_, _, _)
seq_max(s, i, m) == IF i > Len(s) THEN m ELSE seq_max(s, i + 1, Max(m, s[i]))

\* program_iter().filter_map(Load => vaddr + mem_size).max(): NONE when empty
\* (a real maximum is positive for every input of this model)
max_addr(e) ==
  LET ends == [i \in 1..Len(load_headers(e)) |-> seg_end(load_headers(e)[i])]
  IN seq_max(ends, 1, NONE)

ssa_pages(c) == 2 * c.ssaframesize

\* the layout without the guard pages between heap and stack
layout_plan_noguard(max, c) ==
  LET heap_addr == size_align_page_size(max)
      stack_addr == WrapAdd(heap_addr, c.heap_size)
      stack_tos == WrapAdd(stack_addr, c.stack_size)
      tcs_addr == WrapAdd(stack_tos, PAGE_SIZE)
  IN [heap_addr |-> heap_addr, stack_addr |-> stack_addr, stack_tos |-> stack_tos,
      tls_addr |-> stack_tos, tcs_addr |-> tcs_addr,
      last_end |-> WrapAdd(tcs_addr, (1 + ssa_pages(c)) * PAGE_SIZE)]

layout_plan(max, c) ==
  LET heap_addr == size_align_page_size(max)
      stack_addr == WrapAdd(WrapAdd(heap_addr, c.heap_size), GUARD_SIZE)
      stack_tos == WrapAdd(stack_addr, c.stack_size)
      tls_addr == stack_tos
      tcs_addr == WrapAdd(tls_addr, PAGE_SIZE)
  IN [heap_addr |-> heap_addr, stack_addr |-> stack_addr, stack_tos |-> stack_tos,
      tls_addr |-> tls_addr, tcs_addr |-> tcs_addr,
      last_end |-> WrapAdd(tcs_addr, (1 + ssa_pages(c)) * PAGE_SIZE)]

\* some addition of the chain exceeds the word: the operands are all
\* non-negative, so this is the unwrapped total reaching U64_MOD
plan_overflows(max, c) ==
  max + (PAGE_SIZE - 1) - ((max + PAGE_SIZE - 1) % PAGE_SIZE) + c.heap_size + GUARD_SIZE + c.stack_size
      + PAGE_SIZE + (1 + ssa_pages(c)) * PAGE_SIZE >= U64_MOD

NoPlan == [heap_addr |-> 0, stack_addr |-> 0, stack_tos |-> 0, tls_addr |-> 0,
           tcs_addr |-> 0, last_end |-> 0, enclave_size |-> 0]

NoLayout == [sym |-> <<>>, dyn |-> DynNone]

----------------------------------------------------------------------------
(* The canonical SGXS writer, by its contract: an address, when given, is
   page-aligned and not below the running cursor; pages then follow one
   another from it. *)

SomeAddr(a) == [some |-> TRUE, val |-> a]
NoAddr == [some |-> FALSE, val |-> 0]

SGXS_OFFSET == [kind |-> "Sgxs", cause |-> "offset"]
SGXS_IO == [kind |-> "Sgxs", cause |-> "io"]

\* a writer that accepts an address below its cursor
check_offset_unordered(offset, cursor) ==
  LET a == IF offset.some THEN offset.val ELSE cursor
  IN IF page_residue(a) # 0 THEN Err(SGXS_OFFSET) ELSE Ok(a)

check_offset(offset, cursor) ==
  LET a == IF offset.some THEN offset.val ELSE cursor
  IN IF page_residue(a) # 0 \/ a < cursor THEN Err(SGXS_OFFSET) ELSE Ok(a)

NoTcs == [ossa |-> 0, nssa |-> 0, oentry |-> 0, ofsbasgx |-> 0, ogsbasgx |-> 0,
          fslimit |-> 0, gslimit |-> 0]

ECreate(size, ssaframesize) ==
  [op |-> "ecreate", size |-> size, ssaframesize |-> ssaframesize]

Pages(addr, n, ptype, flags, has_data, data, tcs) ==
  [op |-> "pages", addr |-> addr, n |-> n, ptype |-> ptype, flags |-> flags,
   has_data |-> has_data, data |-> data, tcs |-> tcs]

RW == {"R", "W"}

\* writer.write_pages / write_page as called at one place of write, and what
\* the caller's try! does with the outcome: on an error the conversion
\* ends with Error::Sgxs, otherwise it goes on at next_pc.
write_pages(has_data, data, tcs, n, offset, ptype, flags, next_pc, io_ok) ==
  LET chk == check_offset(offset, next_offset)
  IN IF ~chk.ok
     THEN /\ result' = Err(SGXS_OFFSET) /\ pc' = "done"
          /\ UNCHANGED <<out, next_offset>>
     ELSE IF ~io_ok
     THEN /\ result' = Err(SGXS_IO) /\ pc' = "done"
          /\ UNCHANGED <<out, next_offset>>
     ELSE /\ out' = Append(out, Pages(chk.val, n, ptype, flags, has_data, data, tcs))
          /\ next_offset' = chk.val + n * PAGE_SIZE
          /\ pc' = next_pc
          /\ result' = IF next_pc = "done" THEN Ok(0) ELSE result

----------------------------------------------------------------------------
(* Inputs: the ELF files and configurations the conversions start from.
   Every family varies one part of a well-formed enclave ELF: a text
   segment, a data segment holding the five spliced symbols, a PT_DYNAMIC
   header, one RELA section.  Segments lie inside the address space
   (vaddr + mem_size < U64_MOD) and hold no more file bytes than memory. *)

MaxSymFaults == 2
MaxDyn == 2
MaxDynCore == 3
MaxRelas == 2
MaxFree == 2
MaxSsa == 2

SeqsUpTo(S, n) == UNION {[1..k -> S] : k \in 0..n}

RECURSIVE Flatten(_)
Flatten(ss) == IF ss = <<>> THEN <<>> ELSE Head(ss) \o Flatten(Tail(ss))

Reverse(s) == [i \in 1..Len(s) |-> s[Len(s) + 1 - i]]

TEXT_ADDR == 1024 * PAGE_SIZE
DATA_ADDR == 1536 * PAGE_SIZE
PARK_ADDR == 1792 * PAGE_SIZE
RELA_TABLE == TEXT_ADDR + 32

Ph(type, flags, vaddr, mem_size, file_size) ==
  [type |-> type, flags |-> flags, vaddr |-> vaddr, mem_size |-> mem_size,
   file_size |-> file_size]

TextPh == Ph("Load", {"R", "X"}, TEXT_ADDR, 64, 64)
DataPh == Ph("Load", {"R", "W"}, DATA_ADDR, 96, 80)
DynPh == Ph("Dynamic", {"R", "W"}, DATA_ADDR + 72, 8, 8)

Sym(name, size, value) == [name |-> name, undef |-> FALSE, size |-> size, value |-> value]
ReservedSym == [name |-> "", undef |-> TRUE, size |-> 0, value |-> 0]

\* the address a symbol has in the well-formed ELF
SymHome(name) ==
  CASE name = "sgx_entry" -> TEXT_ADDR + 16
    [] name = "HEAP_BASE" -> DATA_ADDR + 32
    [] name = "HEAP_SIZE" -> DATA_ADDR + 40
    [] name = "RELA" -> DATA_ADDR + 48
    [] name = "RELACOUNT" -> DATA_ADDR + 56
    [] name = "ENCLAVE_SIZE" -> DATA_ADDR + 64
    [] OTHER -> DATA_ADDR + 8

GoodSym(name) == Sym(name, IF name = "sgx_entry" THEN 0 ELSE SYM_SIZE, SymHome(name))
GoodSyms == <<ReservedSym>> \o [i \in 1..Len(REQUIRED_SYMS) |-> GoodSym(REQUIRED_SYMS[i])]

Dyn(tag, val) == [tag |-> tag, val |-> val]
GoodDyns == <<Dyn("Rela", RELA_TABLE), Dyn("DT_RELACOUNT", 1)>>

Rela(sym, rtype, offset) == [sym |-> sym, rtype |-> rtype, offset |-> offset]
RelaSection(relas) == [kind |-> "Rela64", relas |-> relas]
OtherSection == [kind |-> "Other", relas |-> <<>>]
GoodSections == <<OtherSection, RelaSection(<<Rela(0, R_X86_64_RELATIVE, DATA_ADDR + 16)>>)>>

GoodElf ==
  [class64 |-> TRUE, dynsym |-> "symtab", syms |-> GoodSyms,
   phdrs |-> <<TextPh, DataPh, DynPh>>, dyns |-> GoodDyns, sections |-> GoodSections]

Cfg(ssaframesize, heap_size, stack_size, debug) ==
  [ssaframesize |-> ssaframesize, heap_size |-> heap_size, stack_size |-> stack_size,
   debug |-> debug]

GoodCfg == Cfg(1, PAGE_SIZE, PAGE_SIZE, FALSE)

Input(e, c, checks) == [elf |-> e, cfg |-> c, checks |-> checks]

(* Family: the header class and the .dynsym section *)
StructureInputs ==
  {Input([GoodElf EXCEPT !.class64 = FALSE], GoodCfg, FALSE)} \cup
  {Input([GoodElf EXCEPT !.dynsym = k], GoodCfg, FALSE) : k \in {"none", "other"}}

(* Family: dynamic symbol tables.  Each required name is present once
   ("ok"), absent, present with size 4, undefined, or present twice; at
   most MaxSymFaults names are not "ok".  The table lists the names in the
   order of REQUIRED_SYMS or in the reverse order, and may hold one more
   symbol, defined or not, before or after them. *)
SymModes == {"ok", "absent", "badsize", "undef", "dup"}

SymEntries(name, mode) ==
  CASE mode = "ok" -> <<GoodSym(name)>>
    [] mode = "absent" -> <<>>
    [] mode = "badsize" -> <<[GoodSym(name) EXCEPT !.size = 4]>>
    [] mode = "undef" -> <<[GoodSym(name) EXCEPT !.undef = TRUE]>>
    [] mode = "dup" -> <<GoodSym(name), [GoodSym(name) EXCEPT !.value = @ + 8]>>

SymModeMaps ==
  {m \in [Range(REQUIRED_SYMS) -> SymModes] :
     Cardinality({n \in Range(REQUIRED_SYMS) : m[n] # "ok"}) <= MaxSymFaults}

ForeignSyms == {Sym("memcpy", 16, TEXT_ADDR + 48),
                [Sym("memcpy", 16, 0) EXCEPT !.undef = TRUE]}

SymTables ==
  LET body(m, order) == Flatten([i \in 1..Len(order) |-> SymEntries(order[i], m[order[i]])])
      bodies == {body(m, order) : m \in SymModeMaps, order \in {REQUIRED_SYMS, Reverse(REQUIRED_SYMS)}}
  IN {<<ReservedSym>> \o b : b \in bodies} \cup
     {<<ReservedSym, f>> \o b : f \in ForeignSyms, b \in bodies} \cup
     {<<ReservedSym>> \o b \o <<f>> : f \in ForeignSyms, b \in bodies}

SymbolInputs == {Input([GoodElf EXCEPT !.syms = t], GoodCfg, FALSE) : t \in SymTables}

(* Family: dynamic entries.  Every sequence of at most MaxDynCore tags over
   a core of four, and every sequence of at most MaxDyn tags of which all
   but one are of the core; with or
   without a PT_DYNAMIC header; with one relocation or none. *)
IGNORED_TAGS == {"Pltgot", "Needed", "Null"}
DynTags == PLTGOT_TAGS \cup INIT_TAGS \cup FINI_TAGS \cup IMPLICIT_RELOC_TAGS \cup
           {"Rela", "DT_RELACOUNT"} \cup IGNORED_TAGS
CoreDynTags == {"Rela", "DT_RELACOUNT", "Pltgot", "JmpRel"}

DynVal(tag) == IF tag = "Rela" THEN RELA_TABLE ELSE 1

\* s with x put before its k-th element
InsertAt(s, k, x) == SubSeq(s, 1, k - 1) \o <<x>> \o SubSeq(s, k, Len(s))

DynLists ==
  LET core == SeqsUpTo(CoreDynTags, MaxDynCore)
      mixed == UNION {{InsertAt(t, k, x) : k \in 1..(Len(t) + 1), x \in DynTags} :
                        t \in SeqsUpTo(CoreDynTags, MaxDyn - 1)}
      tags == core \cup mixed
  IN {[i \in 1..Len(t) |-> Dyn(t[i], DynVal(t[i]))] : t \in tags}

DynamicInputs ==
  {Input([GoodElf EXCEPT !.dyns = d, !.sections = sec], GoodCfg, FALSE) :
     d \in DynLists, sec \in {GoodSections, <<OtherSection>>}} \cup
  {Input([GoodElf EXCEPT !.phdrs = <<TextPh, DataPh>>, !.sections = <<>>], GoodCfg, FALSE)}

(* Family: relocations.  At most MaxRelas entries, all but one of them valid
   ones, in one RELA section or
   split over two with another section between; DT_RELACOUNT from 0 to
   MaxRelas + 1, or no DT_RELA/DT_RELACOUNT; with or without a writable
   segment that ends 4 bytes below the top of the address space; both
   builds. *)
TopPh == Ph("Load", {"R", "W"}, U64_MOD - 16, 12, 12)

RelaEntries ==
  {Rela(0, R_X86_64_RELATIVE, o) :
     o \in {DATA_ADDR + 16, DATA_ADDR + 88, DATA_ADDR + 89, TEXT_ADDR + 8,
            U64_MOD - 16, U64_MOD - 8}} \cup
  {Rela(1, R_X86_64_RELATIVE, DATA_ADDR + 16), Rela(0, 1, DATA_ADDR + 16)}

GoodRela == Rela(0, R_X86_64_RELATIVE, DATA_ADDR + 16)

RelaLists ==
  {<<>>} \cup
  UNION {{InsertAt([i \in 1..n |-> GoodRela], k, x) : k \in 1..(n + 1), x \in RelaEntries} :
           n \in 0..(MaxRelas - 1)}

RelaSplits(r) ==
  {<<RelaSection(r)>>} \cup
  {<<RelaSection(SubSeq(r, 1, k)), OtherSection, RelaSection(SubSeq(r, k + 1, Len(r)))>> :
     k \in 0..Len(r)}

RelocInputsOf(phs, builds) ==
  {Input([GoodElf EXCEPT !.sections = sec, !.dyns = d, !.phdrs = phs], GoodCfg, checks) :
     sec \in UNION {RelaSplits(r) : r \in RelaLists},
     d \in {<<>>} \cup {<<Dyn("Rela", RELA_TABLE), Dyn("DT_RELACOUNT", n)>> : n \in 0..MaxRelas},
     checks \in builds}

RelocInputs ==
  RelocInputsOf(<<TextPh, DataPh, DynPh>>, {FALSE}) \cup
  RelocInputsOf(<<TextPh, DataPh, DynPh, TopPh>>, BOOLEAN)

(* Family: layouts.  Configurations; segment permissions; program headers
   out of address order, sharing a page, unaligned, or absent; and a data
   segment a few pages below the enclave size limit. *)
NoRelocs(e) == [e EXCEPT !.dyns = <<>>, !.sections = <<>>]

ConfigInputs ==
  {Input(GoodElf, Cfg(ssa, heap, stack, debug), FALSE) :
     ssa \in 1..MaxSsa, heap \in {0, PAGE_SIZE, PAGE_SIZE + 2048, 2 * PAGE_SIZE},
     stack \in {PAGE_SIZE, 3 * PAGE_SIZE}, debug \in BOOLEAN}

FlagInputs ==
  {Input([NoRelocs(GoodElf) EXCEPT !.phdrs = <<[TextPh EXCEPT !.flags = tf],
                                               [DataPh EXCEPT !.flags = df], DynPh>>],
         GoodCfg, FALSE) :
     tf \in SUBSET {"R", "W", "X"}, df \in SUBSET {"R", "W", "X"}}

HeaderLists ==
  { <<DataPh, TextPh, DynPh>>,
    <<DynPh, TextPh, DataPh>>,
    <<DynPh>>,
    <<>>,
    <<TextPh, DynPh>>,
    <<[TextPh EXCEPT !.vaddr = @ + 16], DataPh, DynPh>>,
    <<TextPh, Ph("Load", {"R", "W"}, TEXT_ADDR + 256, 32, 32), DynPh>>,
    <<[TextPh EXCEPT !.mem_size = PAGE_SIZE + 1], DataPh, DynPh>>,
    <<[TextPh EXCEPT !.mem_size = 2 * PAGE_SIZE, !.file_size = 2 * PAGE_SIZE], DataPh, DynPh>>,
    <<TextPh, DataPh, Ph("Load", {"R"}, PARK_ADDR, 0, 0), DynPh>>,
    <<TextPh, DataPh, Ph("Load", {"R"}, DATA_ADDR + PAGE_SIZE, 8, 8), DynPh>> }

HeaderInputs ==
  {Input([NoRelocs(GoodElf) EXCEPT !.phdrs = phs], GoodCfg, FALSE) : phs \in HeaderLists}

HighPages == 20..(24 + 2 * MaxSsa)
HighPh(k) == [DataPh EXCEPT !.vaddr = ENCLAVE_SIZE_LIMIT - k * PAGE_SIZE]

HighInputs ==
  {Input([NoRelocs(GoodElf) EXCEPT !.phdrs = <<TextPh, HighPh(k), DynPh>>],
         Cfg(ssa, heap, PAGE_SIZE, FALSE), FALSE) :
     k \in HighPages, ssa \in 1..MaxSsa, heap \in {PAGE_SIZE, 2 * PAGE_SIZE}}

(* Family: splice positions.  The first MaxFree spliced symbols lie at any
   of the candidate addresses of a data segment of one of five shapes (or
   in the text segment, or in no segment), in ascending or in descending
   order of the symbols; the others lie in a third
   segment, which the ELF lists after or before the data segment. *)
DataShapes == { <<0, 48, 48>>, <<24, 32, 40>>, <<0, 16, 48>>, <<4080, 32, 32>>, <<0, 4, 4>> }

ShapePh(sh) == Ph("Load", {"R", "W"}, DATA_ADDR + sh[1], sh[3], sh[2])
ParkPh == Ph("Load", {"R", "W"}, PARK_ADDR, 64, 64)

SpliceCands(sh) ==
  LET start == DATA_ADDR + sh[1]
      end == start + sh[3]
  IN {DATA_ADDR, DATA_ADDR + 8, start - 4, start, start + 8,
      start + sh[2], end - 16, end - 8, end - 7, TEXT_ADDR + 56}

FreeSyms == SubSeq(SIZED_SYMS, 1, MaxFree)

Monotone(f) ==
  \/ \A i \in 1..(Len(f) - 1) : f[i] <= f[i + 1]
  \/ \A i \in 1..(Len(f) - 1) : f[i] >= f[i + 1]

PlacedSyms(place) ==
  <<ReservedSym, GoodSym("sgx_entry")>> \o
  [i \in 1..Len(SIZED_SYMS) |->
     Sym(SIZED_SYMS[i], SYM_SIZE,
         IF i <= MaxFree THEN place[i] ELSE PARK_ADDR + 8 * i)]

SpliceInputsOf(sh) ==
  {Input([GoodElf EXCEPT !.syms = PlacedSyms(place), !.phdrs = phs,
                         !.sections = <<RelaSection(<<Rela(0, R_X86_64_RELATIVE, PARK_ADDR + 48)>>)>>],
         GoodCfg, FALSE) :
     place \in {f \in [1..MaxFree -> SpliceCands(sh)] : Monotone(f)},
     phs \in {<<TextPh, ShapePh(sh), ParkPh, DynPh>>, <<TextPh, ParkPh, ShapePh(sh), DynPh>>}}

SpliceInputs == UNION {SpliceInputsOf(sh) : sh \in DataShapes}

(* Direct calls of enclave_size: around every power of two up to the limit *)
Lasts ==
  {0, 5, 6, 7, 12, 100, 1000, ENCLAVE_SIZE_LIMIT - PAGE_SIZE} \cup
  {n \in {2^k + d : k \in 0..MANT_BITS, d \in {-1, 0, 1}} : n >= 0}

ConvInputs ==
  StructureInputs \cup SymbolInputs \cup DynamicInputs \cup RelocInputs \cup
  ConfigInputs \cup FlagInputs \cup HeaderInputs \cup HighInputs \cup SpliceInputs

(* io::copy.  The reader is any Read: a script of what each call of read
   returns, data of 1..DEFAULT_BUF_SIZE bytes, 0 bytes, or an error; once
   the script is over, read returns 0.  DEFAULT_BUF_SIZE stands for the
   64 KiB of the io module. *)
DEFAULT_BUF_SIZE == 2
MaxReads == 4

ReadData(n) == [kind |-> "data", n |-> n]
ReadEof == [kind |-> "eof"]
ReadErr(k) == [kind |-> "err", ek |-> k]

ReadEvents ==
  {ReadData(n) : n \in 1..DEFAULT_BUF_SIZE} \cup
  {ReadEof, ReadErr("Interrupted"), ReadErr("Other")}
WriteOutcomes == {"ok", "WriteZero", "Other"}

Readers == SeqsUpTo(ReadEvents, MaxReads)

\* what the i-th call of read does
EventAt(rd, i) == IF i <= Len(rd) THEN rd[i] ELSE ReadEof

\* the bytes the reader has yielded in its first m calls; the g-th byte of
\* the stream is StreamByte(g)
StreamByte(g) == (g % 251) + 1
RECURSIVE YieldedLen(_, _)
YieldedLen(rd, m) ==
  IF m = 0 THEN 0
  ELSE YieldedLen(rd, m - 1) + (IF EventAt(rd, m).kind = "data" THEN EventAt(rd, m).n ELSE 0)
Yielded(rd, m) == [g \in 1..YieldedLen(rd, m) |-> StreamByte(g)]

\* reader.read(&mut buf) at call i: the result, and the buffer after it
read_result(rd, i) ==
  LET ev == EventAt(rd, i)
  IN CASE ev.kind = "data" -> Ok(ev.n)
       [] ev.kind = "eof" -> Ok(0)
       [] ev.kind = "err" -> Err(E(ev.ek))
read_fill(rd, i, b) ==
  LET ev == EventAt(rd, i)
      at == YieldedLen(rd, i - 1)
  IN IF ev.kind = "data"
     THEN [k \in 1..DEFAULT_BUF_SIZE |-> IF k <= ev.n THEN StreamByte(at + k) ELSE b[k]]
     ELSE b

\* the match on reader.read with every error retried
copy_match_retry_all(r) ==
  IF r.ok THEN (IF r.val = 0 THEN "return_ok" ELSE "len") ELSE "continue"

\* the match on reader.read: which arm is taken
copy_match(r) ==
  IF r.ok THEN (IF r.val = 0 THEN "return_ok" ELSE "len")
  ELSE IF r.err.kind = "Interrupted" THEN "continue"
  ELSE "return_err"

NoErr == [ok |-> TRUE, val |-> 0]

\* no copy is running
CopyIdle ==
  /\ reader = <<>> /\ reads = 0
  /\ buf = [k \in 1..DEFAULT_BUF_SIZE |-> 0] /\ len = 0
  /\ written = 0 /\ passed = <<>>
  /\ io_err = NoErr /\ ret = RUNNING

Init ==
  /\ CopyIdle
  /\ layout = NoLayout
  /\ plan = NoPlan
  /\ splices = <<>>
  /\ cur_splice = 1
  /\ seg_idx = 0
  /\ out = <<>>
  /\ next_offset = 0
  /\ result = RUNNING
  /\ size_res = RUNNING
  /\ \/ /\ \E i \in ConvInputs :
             /\ elf = i.elf /\ cfg = i.cfg /\ overflow_checks = i.checks
          /\ pc = "new"
          /\ last = 0
     \/ /\ elf = GoodElf /\ cfg = GoodCfg /\ overflow_checks = FALSE
        /\ pc = "enclave_size"
        /\ last \in Lasts

----------------------------------------------------------------------------
(* Actions *)

conv_vars == <<layout, plan, splices, cur_splice, seg_idx, out, next_offset, result>>
input_vars == <<elf, cfg, overflow_checks>>
probe_vars == <<last, size_res>>
copy_vars == <<reader, reads, buf, len, written, passed, io_err, ret>>

Finish(r) == /\ result' = r /\ pc' = "done"

\* LayoutInfo::new
New ==
  /\ pc = "new"
  /\ LET r == new(elf, overflow_checks)
     IN IF r.ok
        THEN /\ layout' = r.val /\ pc' = "write" /\ UNCHANGED result
        ELSE /\ Finish(r) /\ UNCHANGED layout
  /\ UNCHANGED <<plan, splices, cur_splice, seg_idx, out, next_offset>>
  /\ UNCHANGED <<input_vars, probe_vars, copy_vars>>

\* LayoutInfo::write with the writer created before the size is computed
WriteBegin_ecreate_first ==
  /\ pc = "write"
  /\ \E io_ok \in BOOLEAN :
       LET max == max_addr(elf)
           p == layout_plan(max, cfg)
           es == enclave_size(p.last_end)
       IN IF max = NONE
          THEN /\ Finish(Err(E("NoLoadableSegments"))) /\ UNCHANGED <<plan, out>>
          ELSE IF overflow_checks /\ plan_overflows(max, cfg)
          THEN /\ Finish(PANIC) /\ UNCHANGED <<plan, out>>
          ELSE IF ~io_ok
          THEN /\ Finish(Err(SGXS_IO)) /\ UNCHANGED <<plan, out>>
          ELSE IF ~es.ok
          THEN /\ Finish(es) /\ UNCHANGED plan
               /\ out' = <<ECreate(0, cfg.ssaframesize)>>
          ELSE /\ plan' = p @@ [enclave_size |-> es.val]
               /\ out' = <<ECreate(es.val, cfg.ssaframesize)>>
               /\ pc' = "elf_segments"
               /\ UNCHANGED result
  /\ UNCHANGED <<layout, splices, cur_splice, seg_idx, next_offset>>
  /\ UNCHANGED <<input_vars, probe_vars, copy_vars>>

\* LayoutInfo::write up to and including CanonicalSgxsWriter::new, which
\* writes the ECREATE record
WriteBegin ==
  /\ pc = "write"
  /\ \E io_ok \in BOOLEAN :
       LET max == max_addr(elf)
           p == layout_plan(max, cfg)
           es == enclave_size(p.last_end)
       IN IF max = NONE
          THEN /\ Finish(Err(E("NoLoadableSegments"))) /\ UNCHANGED <<plan, out>>
          ELSE IF overflow_checks /\ plan_overflows(max, cfg)
          THEN /\ Finish(PANIC) /\ UNCHANGED <<plan, out>>
          ELSE IF ~es.ok
          THEN /\ Finish(es) /\ UNCHANGED <<plan, out>>
          ELSE IF ~io_ok
          THEN /\ Finish(Err(SGXS_IO)) /\ UNCHANGED <<plan, out>>
          ELSE /\ plan' = p @@ [enclave_size |-> es.val]
               /\ out' = <<ECreate(es.val, cfg.ssaframesize)>>
               /\ pc' = "elf_segments"
               /\ UNCHANGED result
  /\ UNCHANGED <<layout, splices, cur_splice, seg_idx, next_offset>>
  /\ UNCHANGED <<input_vars, probe_vars, copy_vars>>

\* write_elf_segments before its loop: the splice array, sorted, and the cursor
ElfSegmentsBegin ==
  /\ pc = "elf_segments"
  /\ splices' = sort(splice_array(layout, cfg, plan.heap_addr, plan.enclave_size))
  /\ cur_splice' = 1
  /\ seg_idx' = 0
  /\ pc' = "segment"
  /\ UNCHANGED <<layout, plan, out, next_offset, result>>
  /\ UNCHANGED <<input_vars, probe_vars, copy_vars>>

\* the PT_LOAD headers the loop has still to visit
loads_after(e, k) == {i \in (k + 1)..Len(e.phdrs) : is_load(e.phdrs[i])}

SetMin(S) == CHOOSE x \in S : \A y \in S : x <= y

\* one iteration of the loop of write_elf_segments; after the last PT_LOAD
\* header write_elf_segments returns Ok and write goes on with the heap
ElfSegment ==
  /\ pc = "segment"
  /\ loads_after(elf, seg_idx) # {}
  /\ \E io_ok \in BOOLEAN :
       LET i == SetMin(loads_after(elf, seg_idx))
           ph == elf.phdrs[i]
           st == seg_stream(ph, splices, cur_splice)
           next_pc == IF loads_after(elf, i) = {} THEN "heap" ELSE "segment"
       IN IF ~st.ok
          THEN /\ Finish(PANIC) /\ UNCHANGED <<out, next_offset, cur_splice, seg_idx>>
          ELSE /\ write_pages(TRUE, st.val.data, NoTcs, seg_pages(ph), SomeAddr(seg_base(ph)),
                              "Reg", seg_flags(ph), next_pc, io_ok)
               /\ cur_splice' = st.val.cur
               /\ seg_idx' = i
  /\ UNCHANGED <<layout, plan, splices>>
  /\ UNCHANGED <<input_vars, probe_vars, copy_vars>>

\* usize division of write: heap_size / 0x1000
Heap ==
  /\ pc = "heap"
  /\ \E io_ok \in BOOLEAN :
       write_pages(FALSE, <<>>, NoTcs, cfg.heap_size \div PAGE_SIZE, SomeAddr(plan.heap_addr),
                   "Reg", RW, "stack", io_ok)
  /\ UNCHANGED <<layout, plan, splices, cur_splice, seg_idx>>
  /\ UNCHANGED <<input_vars, probe_vars, copy_vars>>

Stack ==
  /\ pc = "stack"
  /\ \E io_ok \in BOOLEAN :
       write_pages(FALSE, <<>>, NoTcs, cfg.stack_size \div PAGE_SIZE, SomeAddr(plan.stack_addr),
                   "Reg", RW, "tls", io_ok)
  /\ UNCHANGED <<layout, plan, splices, cur_splice, seg_idx>>
  /\ UNCHANGED <<input_vars, probe_vars, copy_vars>>

\* transmute::<_,[u8;16]>([stack_tos,0u64])
tls_data(p) == le_bytes(p.stack_tos) \o le_bytes(0)

Tls ==
  /\ pc = "tls"
  /\ \E io_ok \in BOOLEAN :
       write_pages(TRUE, tls_data(plan), NoTcs, 1, SomeAddr(plan.tls_addr),
                   "Reg", RW, "tcs", io_ok)
  /\ UNCHANGED <<layout, plan, splices, cur_splice, seg_idx>>
  /\ UNCHANGED <<input_vars, probe_vars, copy_vars>>

\* the Tcs with ossa at the TCS page itself
tcs_struct_ossa_at_tcs(lay, c, p) ==
  [ossa |-> p.tcs_addr,
   nssa |-> IF c.debug THEN 2 ELSE 1,
   oentry |-> lay.sym["sgx_entry"].value,
   ofsbasgx |-> p.tls_addr,
   ogsbasgx |-> p.stack_tos,
   fslimit |-> PAGE_SIZE - 1,
   gslimit |-> PAGE_SIZE - 1]

\* let tcs=Tcs{..}
tcs_struct(lay, c, p) ==
  [ossa |-> WrapAdd(p.tcs_addr, PAGE_SIZE),
   nssa |-> IF c.debug THEN 2 ELSE 1,
   oentry |-> lay.sym["sgx_entry"].value,
   ofsbasgx |-> p.tls_addr,
   ogsbasgx |-> p.stack_tos,
   fslimit |-> PAGE_SIZE - 1,
   gslimit |-> PAGE_SIZE - 1]

Tcs ==
  /\ pc = "tcs"
  /\ \E io_ok \in BOOLEAN :
       write_pages(TRUE, <<>>, tcs_struct(layout, cfg, plan), 1, SomeAddr(plan.tcs_addr),
                   "Tcs", {}, "ssa", io_ok)
  /\ UNCHANGED <<layout, plan, splices, cur_splice, seg_idx>>
  /\ UNCHANGED <<input_vars, probe_vars, copy_vars>>

Ssa ==
  /\ pc = "ssa"
  /\ \E io_ok \in BOOLEAN :
       write_pages(FALSE, <<>>, NoTcs, ssa_pages(cfg), NoAddr, "Reg", RW, "done", io_ok)
  /\ UNCHANGED <<layout, plan, splices, cur_splice, seg_idx>>
  /\ UNCHANGED <<input_vars, probe_vars, copy_vars>>

\* a direct call enclave_size(last)
EnclaveSizeCall ==
  /\ pc = "enclave_size"
  /\ size_res' = enclave_size(last)
  /\ pc' = "done"
  /\ UNCHANGED <<conv_vars, input_vars, last, copy_vars>>

Next ==
  \/ New
  \/ WriteBegin
  \/ ElfSegmentsBegin
  \/ ElfSegment
  \/ Heap
  \/ Stack
  \/ Tls
  \/ Tcs
  \/ Ssa
  \/ EnclaveSizeCall

Spec == Init /\ [][Next]_vars

----------------------------------------------------------------------------
(* io::copy *)

CopyInit ==
  /\ elf = GoodElf /\ cfg = GoodCfg /\ overflow_checks = FALSE
  /\ layout = NoLayout /\ plan = NoPlan /\ splices = <<>> /\ cur_splice = 1
  /\ seg_idx = 0 /\ out = <<>> /\ next_offset = 0 /\ result = RUNNING
  /\ last = 0 /\ size_res = RUNNING
  /\ pc = "copy_read"
  /\ reader \in Readers /\ reads = 0
  /\ buf = [k \in 1..DEFAULT_BUF_SIZE |-> 0] /\ len = 0
  /\ written = 0 /\ passed = <<>>
  /\ io_err = NoErr /\ ret = RUNNING

\* one pass through `let len = match reader.read(&mut buf) {..}`
CopyRead ==
  /\ pc = "copy_read"
  /\ LET r == read_result(reader, reads + 1)
         arm == copy_match(r)
     IN /\ reads' = reads + 1
        /\ buf' = read_fill(reader, reads + 1, buf)
        /\ io_err' = IF ~r.ok /\ r.err.kind # "Interrupted" THEN r ELSE io_err
        /\ CASE arm = "return_ok" -> ret' = Ok(written) /\ pc' = "done" /\ UNCHANGED len
             [] arm = "len" -> len' = r.val /\ pc' = "copy_write" /\ UNCHANGED ret
             [] arm = "continue" -> UNCHANGED <<ret, pc, len>>
             [] arm = "return_err" -> ret' = r /\ pc' = "done" /\ UNCHANGED len
  /\ UNCHANGED <<reader, written, passed>>
  /\ UNCHANGED <<conv_vars, input_vars, probe_vars>>

\* try!(writer.write_all(&buf[..len])); written += len
CopyWrite ==
  /\ pc = "copy_write"
  /\ passed' = passed \o Take(buf, len)
  /\ \E w \in WriteOutcomes :
       IF w = "ok"
       THEN /\ written' = written + len /\ pc' = "copy_read"
            /\ UNCHANGED <<ret, io_err>>
       ELSE /\ ret' = Err(E(w)) /\ io_err' = Err(E(w)) /\ pc' = "done"
            /\ UNCHANGED written
  /\ UNCHANGED <<reader, reads, buf, len>>
  /\ UNCHANGED <<conv_vars, input_vars, probe_vars>>

CopyNext ==
  \/ CopyRead
  \/ CopyWrite

CopySpec == CopyInit /\ [][CopyNext]_vars

----------------------------------------------------------------------------
(* What the writer has received, read back *)

PageOps == {j \in 1..Len(out) : out[j].op = "pages"}

\* the k-th byte (from 0) of the pages of an operation: the stream it was
\* handed, zero-padded by the writer
PaddedByte(o, k) == IF k < Len(o.data) THEN o.data[k + 1] ELSE 0

\* the operation that emitted the j-th PT_LOAD header: ECREATE comes first
SegOp(j) == out[j + 1]
SegsEmitted == {j \in 1..Len(load_headers(elf)) : j + 1 <= Len(out)}

\* the byte of the emitted image at an address inside an emitted page
Covers(o, a) == o.op = "pages" /\ o.addr <= a /\ a < o.addr + o.n * PAGE_SIZE
ImageByte(a) ==
  LET j == CHOOSE j \in PageOps : Covers(out[j], a)
  IN PaddedByte(out[j], a - out[j].addr)
InImage(a) == \E j \in PageOps : Covers(out[j], a)

\* the value the conversion is to splice at each symbol
SpliceValue(name) ==
  CASE name = "HEAP_BASE" -> size_align_page_size(max_addr(elf))
    [] name = "HEAP_SIZE" -> cfg.heap_size
    [] name = "RELA" -> IF layout.dyn.some THEN layout.dyn.rela.val ELSE 0
    [] name = "RELACOUNT" -> IF layout.dyn.some THEN layout.dyn.relacount.val ELSE 0
    [] name = "ENCLAVE_SIZE" -> out[1].size

SymAddr(name) == layout.sym[name].value

\* the contract of segment emission for a header: the byte at address a
\* of the pages [base, ceil4k(end))
InSpliceWindow(ph, A) == seg_base(ph) <= A /\ A <= seg_end(ph) - SPLICE_LEN
PlainByte(ph, a) ==
  IF seg_start(ph) <= a /\ a < seg_start(ph) + ph.file_size THEN ElfByte(a) ELSE 0
ContractHolds(ph, o) ==
  \A k \in 0..(Max(Len(o.data), seg_end(ph) - seg_base(ph)) - 1) :
     LET a == seg_base(ph) + k
         hits == {n \in Range(SIZED_SYMS) :
                    /\ InSpliceWindow(ph, SymAddr(n))
                    /\ SymAddr(n) <= a /\ a < SymAddr(n) + SPLICE_LEN}
     IN /\ \A n \in hits :
             PaddedByte(o, k) = le_bytes(SpliceValue(n))[a - SymAddr(n) + 1]
        /\ hits = {} => PaddedByte(o, k) = PlainByte(ph, a)

\* the five spliced symbols occupy pairwise disjoint 8-byte ranges
SymsDisjoint ==
  \A m, n \in Range(SIZED_SYMS) :
     m # n => \/ SymAddr(m) + SPLICE_LEN <= SymAddr(n)
              \/ SymAddr(n) + SPLICE_LEN <= SymAddr(m)

\* C1: every loadable segment's emitted stream is zeros for [base, start),
\* then the segment's bytes, except that each splice with base <= A <= end - 8
\* shows its little-endian value at A - base, wherever A lies in that range
\* (stated for symbols that do not overlap one another).
C1_SegmentStreamContract ==
  \A j \in SegsEmitted :
     SymsDisjoint => ContractHolds(load_headers(elf)[j], SegOp(j))

LoadsAscending ==
  \A i, j \in 1..Len(load_headers(elf)) :
     i < j => load_headers(elf)[i].vaddr < load_headers(elf)[j].vaddr

SymInsideSomeSegment(name) ==
  \E i \in 1..Len(load_headers(elf)) :
     /\ seg_start(load_headers(elf)[i]) <= SymAddr(name)
     /\ SymAddr(name) + SPLICE_LEN <= seg_end(load_headers(elf)[i])

\* C2: after a successful conversion of an ELF with ascending loadable
\* segments whose five spliced symbols each lie inside a segment, the image
\* holds each computed value at its symbol's address and the splice cursor
\* is at the end of the list.
C2_SpliceFidelity ==
  (/\ pc = "done" /\ result.ok /\ last = 0
   /\ LoadsAscending /\ SymsDisjoint
   /\ \A n \in Range(SIZED_SYMS) : SymInsideSomeSegment(n))
  => /\ \A n \in Range(SIZED_SYMS) : \A b \in 0..(SPLICE_LEN - 1) :
          /\ InImage(SymAddr(n) + b)
          /\ ImageByte(SymAddr(n) + b) = le_bytes(SpliceValue(n))[b + 1]
     /\ cur_splice = Len(splices) + 1

----------------------------------------------------------------------------
(* Page order *)

\* the addresses of the pages of the image, in the order of their emission
PagesOf(o) == IF o.op = "pages" THEN [i \in 1..o.n |-> o.addr + (i - 1) * PAGE_SIZE]
              ELSE <<>>
PageAddrs == Flatten([j \in 1..Len(out) |-> PagesOf(out[j])])

StrictlyAscending(s) == \A i \in 1..(Len(s) - 1) : s[i] < s[i + 1]

\* the smallest page-aligned base among the loadable segments
MinLoadBase ==
  CHOOSE b \in {(ph.vaddr \div PAGE_SIZE) * PAGE_SIZE : ph \in Range(load_headers(elf))} :
    \A ph \in Range(load_headers(elf)) : b <= ph.vaddr

Completed == pc = "done" /\ last = 0 /\ result.ok

----------------------------------------------------------------------------
(* Enclave size *)

IsPow2(v) == \E k \in 0..WORD_BITS : v = 2^k

\* enclave_size has returned for the argument `last`
SizeReturned == pc = "done" /\ size_res # RUNNING

\* the end of the page emitted last
MaxPageEnd == PageAddrs[Len(PageAddrs)] + PAGE_SIZE

\* C4: for 0 < x < 2^53 the enclave size is the power of two v with
\* x <= v < 2x (so v = x exactly when x is a power of two), and the size
\* carried by ECREATE is the least power of two that is >= the end of every
\* page emitted in the conversion.
C4_EnclaveSizeLaw ==
  /\ (SizeReturned /\ 0 < last /\ last < ENCLAVE_SIZE_LIMIT) =>
        /\ size_res.ok
        /\ IsPow2(size_res.val)
        /\ last <= size_res.val /\ size_res.val < 2 * last
        /\ (size_res.val = last) <=> IsPow2(last)
  /\ Completed =>
        /\ IsPow2(out[1].size)
        /\ \A i \in 1..Len(PageAddrs) : PageAddrs[i] + PAGE_SIZE <= out[1].size
        /\ out[1].size < 2 * MaxPageEnd

C4_Witness ==
  /\ SizeReturned /\ last = HIDDEN_BIT /\ size_res = Ok(last)

\* the layout chain of a conversion, in the machine's arithmetic
ChainEnd ==
  LET heap_addr == size_align_page_size(max_addr(elf))
      stack_addr == (heap_addr + cfg.heap_size + GUARD_SIZE) % U64_MOD
      tls_addr == (stack_addr + cfg.stack_size) % U64_MOD
      tcs_addr == (tls_addr + PAGE_SIZE) % U64_MOD
  IN (tcs_addr + (1 + 2 * cfg.ssaframesize) * PAGE_SIZE) % U64_MOD

\* the address of the last SSA page
LastPage == ChainEnd - PAGE_SIZE

\* the conversion has passed LayoutInfo::new and evaluated the enclave size
SizeEvaluated ==
  /\ last = 0 /\ layout # NoLayout /\ pc # "write"
  /\ max_addr(elf) # NONE
  /\ ~(result = PANIC /\ out = <<>>)

TooBig == result = Err(E("EnclaveSizeTooBig"))

\* C5 (as stated): a conversion fails with EnclaveSizeTooBig exactly when
\* last_page >= 2^53; every layout with last_page < 2^53 gets a size.
C5_TooBigIffLastPage ==
  (SizeEvaluated /\ ~plan_overflows(max_addr(elf), cfg)) =>
     (TooBig <=> LastPage >= ENCLAVE_SIZE_LIMIT)

\* C5 (amended): a conversion fails with EnclaveSizeTooBig exactly when
\* the end of the last SSA page, last_page + 0x1000 as write computes it
\* in 64-bit arithmetic, is >= 2^53; otherwise ECREATE carries a size.
C5_TooBigIffLastPageEnd ==
  SizeEvaluated =>
     /\ TooBig <=> ChainEnd >= ENCLAVE_SIZE_LIMIT
     /\ ~TooBig => (out # <<>> \/ result = Err(SGXS_IO))

C5_Witness ==
  /\ SizeEvaluated /\ TooBig /\ pc = "done"
  /\ LastPage = ENCLAVE_SIZE_LIMIT - PAGE_SIZE

----------------------------------------------------------------------------
(* Errors and the emission sequence *)

\* C6: an error other than an Sgxs one is returned before any writer
\* operation: once ECREATE has been written, the only error a conversion
\* can return is an Sgxs one.
C6_ValidationBeforeOutput ==
  (IsErr(result) /\ result.err.kind # "Sgxs") => out = <<>>

C6_Witness ==
  /\ pc = "done" /\ TooBig /\ out = <<>> /\ layout # NoLayout

\* the layout of section 3, in plain arithmetic
SpecHeapAddr ==
  LET m == max_addr(elf) IN ((m + PAGE_SIZE - 1) \div PAGE_SIZE) * PAGE_SIZE
SpecStackAddr == SpecHeapAddr + cfg.heap_size + GUARD_SIZE
SpecTlsAddr == SpecStackAddr + cfg.stack_size

\* what an operation says of its pages; the stream is compared separately
Shape(o) == [addr |-> o.addr, n |-> o.n, ptype |-> o.ptype, flags |-> o.flags,
             has_data |-> o.has_data]
Unaddressed(o) == [n |-> o.n, ptype |-> o.ptype, flags |-> o.flags,
                   has_data |-> o.has_data]

NumLoads == Len(load_headers(elf))

SegShape(ph, o) ==
  LET base == (ph.vaddr \div PAGE_SIZE) * PAGE_SIZE
  IN /\ o.op = "pages" /\ o.ptype = "Reg" /\ o.has_data
     /\ o.addr = base
     /\ o.n = (ph.vaddr + ph.mem_size - base + PAGE_SIZE - 1) \div PAGE_SIZE
     /\ o.flags = ph.flags

\* C7: a successful conversion emits exactly ECREATE, one operation per
\* PT_LOAD header in program-header order, heap_size/4096 data-less R|W
\* pages at heap_addr, stack_size/4096 data-less R|W pages at stack_addr,
\* one R|W page at tls_addr whose first 16 bytes are the little-endian
\* words [stack_tos, 0] (stack_tos = tls_addr), one TCS page at tls_addr + 0x1000, and 2*ssaframesize
\* data-less R|W pages; no page lies in [heap_addr + heap_size, stack_addr).
C7_EmissionSequence ==
  Completed =>
    LET k == NumLoads IN
    /\ Len(out) = k + 6
    /\ out[1] = ECreate(out[1].size, cfg.ssaframesize)
    /\ \A j \in 1..k : SegShape(load_headers(elf)[j], out[j + 1])
    /\ Shape(out[k + 2]) =
         [addr |-> SpecHeapAddr, n |-> cfg.heap_size \div PAGE_SIZE,
          ptype |-> "Reg", flags |-> {"R", "W"}, has_data |-> FALSE]
    /\ Shape(out[k + 3]) =
         [addr |-> SpecStackAddr, n |-> cfg.stack_size \div PAGE_SIZE,
          ptype |-> "Reg", flags |-> {"R", "W"}, has_data |-> FALSE]
    /\ Shape(out[k + 4]) =
         [addr |-> SpecTlsAddr, n |-> 1,
          ptype |-> "Reg", flags |-> {"R", "W"}, has_data |-> TRUE]
    /\ Take(out[k + 4].data, 16) =
         le_bytes(SpecTlsAddr) \o le_bytes(0)
    /\ out[k + 5].op = "pages" /\ out[k + 5].ptype = "Tcs"
    /\ out[k + 5].addr = SpecTlsAddr + PAGE_SIZE /\ out[k + 5].n = 1
    /\ Unaddressed(out[k + 6]) =
         [n |-> 2 * cfg.ssaframesize,
          ptype |-> "Reg", flags |-> {"R", "W"}, has_data |-> FALSE]
    /\ \A i \in 1..Len(PageAddrs) :
         ~(SpecHeapAddr + cfg.heap_size <= PageAddrs[i] /\ PageAddrs[i] < SpecStackAddr)

C7_Witness ==
  /\ Completed /\ NumLoads >= 2 /\ cfg.ssaframesize = 2 /\ cfg.debug
  /\ cfg.heap_size >= 2 * PAGE_SIZE

----------------------------------------------------------------------------
(* Validation *)

\* LayoutInfo::new has returned
NewReturned == last = 0 /\ pc # "new"
NewSucceeded == NewReturned /\ layout # NoLayout
NewFailedWith(kinds) == NewReturned /\ IsErr(result) /\ result.err.kind \in kinds

AllRelas == Flatten([i \in 1..Len(elf.sections) |->
                       IF elf.sections[i].kind = "Rela64" THEN elf.sections[i].relas
                       ELSE <<>>])

\* [offset, offset + 8) inside [vaddr, vaddr + mem_size) of a writable PT_LOAD
InWritableLoad(offset) ==
  \E i \in 1..Len(elf.phdrs) :
     /\ elf.phdrs[i].type = "Load" /\ "W" \in elf.phdrs[i].flags
     /\ elf.phdrs[i].vaddr <= offset
     /\ offset + 8 <= elf.phdrs[i].vaddr + elf.phdrs[i].mem_size

DtRelacount ==
  IF \E i \in 1..Len(elf.dyns) : elf.dyns[i].tag = "DT_RELACOUNT"
  THEN elf.dyns[CHOOSE i \in 1..Len(elf.dyns) : elf.dyns[i].tag = "DT_RELACOUNT"].val
  ELSE 0

RelocsValid ==
  /\ \A i \in 1..Len(AllRelas) :
       /\ AllRelas[i].rtype = 8 /\ AllRelas[i].sym = 0
       /\ InWritableLoad(AllRelas[i].offset)
  /\ Len(AllRelas) = DtRelacount

RelocErrors ==
  {"RelocationInvalid", "RelocationOutsideWritableSegment", "RelocationInvalidCount"}

\* check_relocs was reached: the class and the two earlier checks passed
RelocsChecked ==
  NewReturned /\ elf.class64 /\ check_symbols(elf).ok /\ check_dynamic(elf).ok

\* C8: whenever LayoutInfo::new succeeds every RELA entry has type 8, symbol
\* index 0 and its 8 bytes inside one writable PT_LOAD, for every 64-bit
\* offset, and the entries number DT_RELACOUNT (0 when absent); otherwise
\* new fails with one of the three relocation errors.
C8_RelocsValidated ==
  /\ NewSucceeded => RelocsValid
  /\ (RelocsChecked /\ ~RelocsValid) => NewFailedWith(RelocErrors)

\* the entries of the dynamic symbol table after the reserved first one
SymEntriesAfterFirst == 2..Len(elf.syms)
Occurrences(name) == {i \in SymEntriesAfterFirst : elf.syms[i].name = name}

SymbolsValid ==
  /\ \A i \in SymEntriesAfterFirst : ~elf.syms[i].undef
  /\ \A n \in Range(REQUIRED_SYMS) : Cardinality(Occurrences(n)) = 1
  /\ \A n \in Range(SIZED_SYMS) : \A i \in Occurrences(n) : elf.syms[i].size = 8

\* the entries that stop the walk of the table
SymViolations ==
  {i \in SymEntriesAfterFirst :
     \/ elf.syms[i].undef
     \/ /\ elf.syms[i].name \in Range(REQUIRED_SYMS)
        /\ \E j \in Occurrences(elf.syms[i].name) : j < i}
FirstSymViolation == CHOOSE i \in SymViolations : \A j \in SymViolations : i <= j
AbsentSyms == {n \in Range(REQUIRED_SYMS) : Occurrences(n) = {}}

SymErrors ==
  {"DynamicSymbolUndefined", "DynamicSymbolDuplicate", "DynamicSymbolMissing",
   "DynamicSymbolIncorrectSize"}

\* check_symbols walked the table: the class is 64-bit and .dynsym is a
\* 64-bit dynamic symbol table
SymbolsChecked == NewReturned /\ elf.class64 /\ elf.dynsym = "symtab"

\* C9: check_symbols succeeds iff no entry after the reserved first one is
\* undefined, each of the six names occurs exactly once and each of the
\* five other than sgx_entry has size 8; otherwise the error is the first
\* violation in table order (undefined entry, or second occurrence of a
\* required name), else DynamicSymbolMissing listing exactly the absent
\* names, else DynamicSymbolIncorrectSize.
C9_CheckSymbols ==
  SymbolsChecked =>
    /\ ~NewFailedWith(SymErrors) <=> SymbolsValid
    /\ ~SymbolsValid =>
         IF SymViolations # {}
         THEN LET sym == elf.syms[FirstSymViolation]
              IN result.err = [kind |-> IF sym.undef THEN "DynamicSymbolUndefined"
                                        ELSE "DynamicSymbolDuplicate",
                               name |-> sym.name]
         ELSE IF AbsentSyms # {}
         THEN /\ result.err.kind = "DynamicSymbolMissing"
              /\ Range(result.err.missing) = AbsentSyms
              /\ Len(result.err.missing) = Cardinality(AbsentSyms)
         ELSE result.err.kind = "DynamicSymbolIncorrectSize"

C9_Witness ==
  /\ SymbolsChecked /\ SymViolations = {} /\ Cardinality(AbsentSyms) = 2
  /\ NewFailedWith({"DynamicSymbolMissing"})
  /\ \E i \in SymEntriesAfterFirst : elf.syms[i].name \notin Range(REQUIRED_SYMS)

REJECTED_TAGS ==
  {"PltRelSize", "PltRel", "JmpRel", "Init", "InitArray", "InitArraySize",
   "Fini", "FiniArray", "FiniArraySize", "Rel", "RelSize", "RelEnt", "DT_RELCOUNT"}

TagCount(tag) == Cardinality({i \in 1..Len(elf.dyns) : elf.dyns[i].tag = tag})
TheDyn(tag) == elf.dyns[CHOOSE i \in 1..Len(elf.dyns) : elf.dyns[i].tag = tag]
HasPtDynamic == \E i \in 1..Len(elf.phdrs) : elf.phdrs[i].type = "Dynamic"

DynamicValid ==
  /\ HasPtDynamic
  /\ \A i \in 1..Len(elf.dyns) : elf.dyns[i].tag \notin REJECTED_TAGS
  /\ TagCount("Rela") <= 1 /\ TagCount("DT_RELACOUNT") <= 1
  /\ TagCount("Rela") = TagCount("DT_RELACOUNT")

DynErrors ==
  {"DynamicSectionNotFound", "DynamicSectionNotInPtDynamicSegment",
   "DynEntryUnsupportedPLTGOT", "DynEntryUnsupportedInitFunction",
   "DynEntryUnsupportedFiniFunction", "DynEntryUnsupportedImplicitReloc",
   "DynEntryDuplicateDtRela", "DynEntryDuplicateDtRelacount",
   "DynEntryFoundDtRelaButNotDtRelacount", "DynEntryFoundDtRelacountButNotDtRela"}

\* check_dynamic was reached
DynamicChecked == NewReturned /\ elf.class64 /\ check_symbols(elf).ok

\* the tags of the list are the pair's or tags without a rule
OnlyLoneTag(tag) ==
  /\ HasPtDynamic /\ TagCount(tag) = 1
  /\ \A i \in 1..Len(elf.dyns) :
       elf.dyns[i].tag \notin REJECTED_TAGS \cup ({"Rela", "DT_RELACOUNT"} \ {tag})

\* C10: check_dynamic succeeds exactly when a PT_DYNAMIC segment exists,
\* no entry has one of the thirteen rejected tags, DT_RELA and DT_RELACOUNT
\* occur at most once and are both present or both absent; it returns the
\* pair, or nothing when both are absent; a lone DT_RELA or DT_RELACOUNT
\* and a missing PT_DYNAMIC yield their errors; any other tag, PLTGOT
\* included, has no part in the outcome.
C10_CheckDynamic ==
  DynamicChecked =>
    /\ ~NewFailedWith(DynErrors) <=> DynamicValid
    /\ NewSucceeded =>
         layout.dyn = IF TagCount("Rela") = 1
                      THEN [some |-> TRUE, rela |-> TheDyn("Rela"),
                            relacount |-> TheDyn("DT_RELACOUNT")]
                      ELSE [some |-> FALSE]
    /\ OnlyLoneTag("Rela") =>
         result = Err(E("DynEntryFoundDtRelaButNotDtRelacount"))
    /\ OnlyLoneTag("DT_RELACOUNT") =>
         result = Err(E("DynEntryFoundDtRelacountButNotDtRela"))
    /\ ~HasPtDynamic => result = Err(E("DynamicSectionNotFound"))

C10_Witness ==
  /\ NewSucceeded /\ layout.dyn.some
  /\ \E i \in 1..Len(elf.dyns) : elf.dyns[i].tag = "Pltgot"

----------------------------------------------------------------------------
(* The splice list *)

\* C11: for every ELF that passes LayoutInfo::new the addresses of the five
\* spliced symbols are pairwise distinct, so no two entries of the sorted
\* splice list compare equal.
C11_SpliceAddressesDistinct ==
  /\ NewSucceeded =>
       \A m, n \in Range(SIZED_SYMS) : m # n => SymAddr(m) # SymAddr(n)
  /\ \A i, j \in 1..Len(splices) : i # j => splices[i].addr # splices[j].addr

----------------------------------------------------------------------------
(* io::copy *)

ReadsMade == 1..reads
EofSeen == reads >= 1 /\ EventAt(reader, reads).kind = "eof"

\* C12: copy returns Ok(n) only after a read of 0 bytes, with n the number
\* of bytes the reader yielded over all reads and exactly those bytes
\* passed to the writer in order; an Interrupted read is retried and leaves
\* the count as it was; any other read error and any write error ends the
\* copy at once with that error.
C12_CopyContract ==
  /\ ret.ok =>
       /\ EofSeen
       /\ ret.val = Len(Yielded(reader, reads))
       /\ passed = Yielded(reader, reads)
  /\ pc = "copy_read" =>
       /\ written = Len(Yielded(reader, reads))
       /\ passed = Yielded(reader, reads)
  /\ io_err # NoErr => pc = "done" /\ ret = io_err
  /\ (pc = "done" /\ io_err = NoErr) => ret.ok

C12_Witness ==
  /\ pc = "done" /\ ret.ok /\ ret.val > DEFAULT_BUF_SIZE
  /\ \E i \in ReadsMade : EventAt(reader, i) = ReadErr("Interrupted")

----------------------------------------------------------------------------
(* The splice cursor *)

\* a splice at address A has its 8 bytes in the segment's window
InWindow(ph, A) == seg_base(ph) <= A /\ A + SPLICE_LEN <= seg_end(ph)

SplicesDistinct ==
  \A i, j \in 1..Len(splices) : i # j => splices[i].addr # splices[j].addr

\* this step is the emission of the segment of program header i
Emits(i) == pc = "segment" /\ seg_idx' = i /\ seg_idx # i

\* C13: the emission of a loadable segment takes from the cursor exactly
\* the splices, from the head on, whose address A has base <= A and
\* A + 8 <= end: a head splice at end - 8 is taken, and none with A < base
\* or A + 8 > end is (stated for splices at distinct addresses).
C13_ConsumedInWindow ==
  [][\A i \in 1..Len(elf.phdrs) :
       (Emits(i) /\ SplicesDistinct) =>
         /\ cur_splice' >= cur_splice
         /\ \A k \in cur_splice..(cur_splice' - 1) :
              InWindow(elf.phdrs[i], splices[k].addr)
         /\ cur_splice' <= Len(splices) =>
              ~InWindow(elf.phdrs[i], splices[cur_splice'].addr)]_vars

----------------------------------------------------------------------------
(* The TCS and the SSA pages *)

TcsOp == out[NumLoads + 5]
SsaOp == out[NumLoads + 6]
SgxEntry == elf.syms[CHOOSE i \in 2..Len(elf.syms) : elf.syms[i].name = "sgx_entry"]

\* C14: in a successful conversion the address the writer's cursor gives
\* the first SSA page is the TCS field ossa = tcs_addr + 0x1000; nssa is 2
\* with debug and 1 without, oentry is sgx_entry's value, ofsbasgx is
\* tls_addr, ogsbasgx is stack_tos, fslimit = gslimit = 0xFFF, and the
\* 2*ssa_frame_size SSA pages cover nssa*ssa_frame_size pages.
C14_TcsFields ==
  Completed =>
    /\ SsaOp.addr = TcsOp.tcs.ossa
    /\ TcsOp.tcs.ossa = TcsOp.addr + 4096
    /\ TcsOp.addr = SpecTlsAddr + 4096
    /\ TcsOp.tcs.nssa = (IF cfg.debug THEN 2 ELSE 1)
    /\ TcsOp.tcs.oentry = SgxEntry.value
    /\ TcsOp.tcs.ofsbasgx = SpecTlsAddr
    /\ TcsOp.tcs.ogsbasgx = SpecStackAddr + cfg.stack_size
    /\ TcsOp.tcs.fslimit = 4095 /\ TcsOp.tcs.gslimit = 4095
    /\ SsaOp.n = 2 * cfg.ssaframesize
    /\ SsaOp.n >= TcsOp.tcs.nssa * cfg.ssaframesize

C14_Witness ==
  /\ Completed /\ cfg.debug /\ cfg.ssaframesize = 2
  /\ SsaOp.n = 4 /\ TcsOp.tcs.nssa = 2

----------------------------------------------------------------------------
(* The cursor over a whole conversion *)

Consumed(k) == k < cur_splice

\* C15: the splice cursor only moves forward; splices are consumed in
\* strictly ascending address order, one only after every splice with a
\* smaller address; a head splice no segment consumes keeps itself and
\* every later splice unconsumed, and the conversion still succeeds.
C15_CursorForward ==
  /\ [](\A i, j \in 1..Len(splices) :
          /\ (Consumed(i) /\ splices[j].addr < splices[i].addr) => Consumed(j)
          /\ (i < j /\ Consumed(j)) => splices[i].addr < splices[j].addr
          /\ (i < j /\ ~Consumed(i)) => ~Consumed(j))
  /\ [][cur_splice' >= cur_splice]_vars

====
